---------------------------- MODULE Spec2Model ----------------------------
(***************************************************************************)
(* A model of http-proxy.py: the incremental HTTP/1.0 message parser       *)
(* (parse_line, get_header_response, parse_message), the serializer        *)
(* (build_message), the target resolver (parse_uri) and the relay driver   *)
(* (main, get_response).                                                   *)
(*                                                                         *)
(* Bytes are integers 0..255 and a bytes object is a sequence of them.     *)
(* A str is the sequence of its code points; iso-8859-1 maps byte b to     *)
(* code point b and back, so decode and encode keep the numbers.           *)
(* Python's None is modelled by a value outside the byte strings.          *)
(***************************************************************************)
EXTENDS Integers, Sequences, FiniteSets

\* ------------------------------------------------------------------ bytes

LF == 10
CR == 13
SP == 32
HT == 9
COLON == 58
SLASH == 47
UNDERSCORE == 95
PLUS == 43
MINUS == 45

\* None, where the code holds None in place of a bytes or str object.
None == << -1 >>

\* None, where the code holds None in place of a message dict.
NoMessage == [type |-> "None"]

\* None, where get_header_response returns None in place of a header dict.
NoHeader == [name |-> None, value |-> None]

\* The characters str.strip() removes (str.isspace, code points 0..255).
WhiteSpace == {9, 10, 11, 12, 13, 28, 29, 30, 31, 32, 133, 160}

\* The digits int() reads.
Digits == 48 .. 57

\* 'Content-Length', 'Referer', 'User-Agent', 'HTTP/1.0', "- ", "-", ": ", '\r\n'
ContentLengthName == <<67, 111, 110, 116, 101, 110, 116, 45, 76, 101, 110, 103, 116, 104>>
RefererName == <<82, 101, 102, 101, 114, 101, 114>>
UserAgentName == <<85, 115, 101, 114, 45, 65, 103, 101, 110, 116>>
Http10 == <<72, 84, 84, 80, 47, 49, 46, 48>>
DefaultReferer == <<45, 32>>
DefaultUserAgent == <<45>>
ColonSpace == <<58, 32>>
CRLF == <<13, 10>>

\* bytes.decode('iso-8859-1'): byte b becomes code point b.
decode(b) == [i \in 1 .. Len(b) |-> b[i]]

\* str.encode('iso-8859-1'): code point c (at most 255 here) becomes byte c.
encode(s) == [i \in 1 .. Len(s) |-> s[i]]

RECURSIVE Find(_, _, _)
\* The least index >= i of s that holds c, 0 when there is none (str.find + 1).
Find(s, c, i) ==
    IF i > Len(s) THEN 0
    ELSE IF s[i] = c THEN i
    ELSE Find(s, c, i + 1)

RECURSIVE RStripLen(_, _, _)
\* The length of s[1..n] once its trailing characters in cs are removed.
RStripLen(s, cs, n) ==
    IF n = 0 THEN 0
    ELSE IF s[n] \in cs THEN RStripLen(s, cs, n - 1)
    ELSE n

RECURSIVE LStripPos(_, _, _)
\* The index of the first character of s at or after i that is not in cs.
LStripPos(s, cs, i) ==
    IF i > Len(s) THEN i
    ELSE IF s[i] \in cs THEN LStripPos(s, cs, i + 1)
    ELSE i

\* bytes.rstrip(chars)
rstrip(s, cs) == SubSeq(s, 1, RStripLen(s, cs, Len(s)))

\* str.strip()
strip(s) == SubSeq(s, LStripPos(s, WhiteSpace, 1), RStripLen(s, WhiteSpace, Len(s)))

\* bytes.partition(sep) for a one-byte separator.
partition(data, sep) ==
    LET i == Find(data, sep, 1) IN
    IF i = 0 THEN << data, << >>, << >> >>
    ELSE << SubSeq(data, 1, i - 1), << sep >>, SubSeq(data, i + 1, Len(data)) >>

\* split_sp_2 as str.split(' ')[:3]: the third field ends at the next space.
split_sp_first3(line) ==
    LET i == Find(line, SP, 1)
        j == IF i = 0 THEN 0 ELSE Find(line, SP, i + 1)
        k == IF j = 0 THEN 0 ELSE Find(line, SP, j + 1)
    IN  IF i = 0 THEN << line >>
        ELSE IF j = 0 THEN << SubSeq(line, 1, i - 1), SubSeq(line, i + 1, Len(line)) >>
        ELSE << SubSeq(line, 1, i - 1), SubSeq(line, i + 1, j - 1),
                SubSeq(line, j + 1, IF k = 0 THEN Len(line) ELSE k - 1) >>

\* str.split(' ', 2): at most two splits, each at a single space.
split_sp_2(line) ==
    LET i == Find(line, SP, 1)
        j == IF i = 0 THEN 0 ELSE Find(line, SP, i + 1)
    IN  IF i = 0 THEN << line >>
        ELSE IF j = 0 THEN << SubSeq(line, 1, i - 1), SubSeq(line, i + 1, Len(line)) >>
        ELSE << SubSeq(line, 1, i - 1), SubSeq(line, i + 1, j - 1),
                SubSeq(line, j + 1, Len(line)) >>

\* starts_folded taking a space only for the start of a continuation line.
starts_with_space(line) == Len(line) > 0 /\ line[1] = SP

\* str.startswith(" ") or str.startswith("\t")
starts_folded(line) == Len(line) > 0 /\ line[1] \in {SP, HT}

\* Whether int(s) returns: surrounding white space, a sign, then digits with
\* single underscores between digits.
int_ok(s) ==
    LET t == strip(s)
        d == IF Len(t) > 0 /\ t[1] \in {PLUS, MINUS} THEN SubSeq(t, 2, Len(t)) ELSE t
    IN  /\ Len(d) > 0
        /\ \A i \in 1 .. Len(d) :
              \/ d[i] \in Digits
              \/ /\ d[i] = UNDERSCORE
                 /\ 1 < i /\ i < Len(d)
                 /\ d[i - 1] \in Digits /\ d[i + 1] \in Digits

RECURSIVE DigitsValue(_, _, _)
\* The number the digits of d[i..] spell after the digits read so far (acc).
DigitsValue(d, i, acc) ==
    IF i > Len(d) THEN acc
    ELSE IF d[i] = UNDERSCORE THEN DigitsValue(d, i + 1, acc)
    ELSE DigitsValue(d, i + 1, 10 * acc + (d[i] - 48))

\* int(s), where int_ok(s).
int_of(s) ==
    LET t == strip(s)
        neg == Len(t) > 0 /\ t[1] = MINUS
        d == IF Len(t) > 0 /\ t[1] \in {PLUS, MINUS} THEN SubSeq(t, 2, Len(t)) ELSE t
    IN  IF neg THEN 0 - DigitsValue(d, 1, 0) ELSE DigitsValue(d, 1, 0)

RECURSIVE Decimal(_)
\* str(n) for n >= 0.
Decimal(n) ==
    IF n < 10 THEN << 48 + n >>
    ELSE Append(Decimal(n \div 10), 48 + (n % 10))

\* ------------------------------------------------------- build_message

RECURSIVE build_headers(_, _)
\* The loop of build_message over message['headers'], from header i on.
build_headers(headers, i) ==
    IF i > Len(headers) THEN << >>
    ELSE headers[i].name \o ColonSpace \o headers[i].value \o CRLF
         \o build_headers(headers, i + 1)

\* build_message sending the request's own version on.
build_message_own_version(message) ==
    LET message_header ==
            IF message.type = "REQUEST"
            THEN message.method \o << SP >> \o message.uri \o << SP >>
                 \o message.version \o CRLF
            ELSE message.version \o << SP >> \o message.status_code \o << SP >>
                 \o message.status_text \o CRLF
        data == message_header \o build_headers(message.headers, 1) \o CRLF
        req == encode(data)
    IN  IF Len(message.body) > 0 THEN req \o message.body ELSE req

build_message(message) ==
    LET message_header ==
            IF message.type = "REQUEST"
            THEN message.method \o << SP >> \o message.uri \o << SP >> \o Http10 \o CRLF
            ELSE message.version \o << SP >> \o message.status_code \o << SP >>
                 \o message.status_text \o CRLF
        data == message_header \o build_headers(message.headers, 1) \o CRLF
        req == encode(data)
    IN  IF Len(message.body) > 0 THEN req \o message.body ELSE req

\* ---------------------------------------------------------- parse_line

\* parse_line taking the end of the buffer for the end of a line.
parse_line_eager(data) ==
    LET fields == partition(data, LF) IN
    [line |-> decode(rstrip(fields[1], {CR})),
     rest |-> IF Len(fields[3]) = 0 THEN None ELSE fields[3]]

parse_line(data) ==
    LET fields == partition(data, LF) IN
    IF Len(fields[2]) = 0 THEN [line |-> None, rest |-> data]
    ELSE LET fin_line == decode(rstrip(fields[1], {CR})) IN
         IF Len(fields[3]) = 0 THEN [line |-> fin_line, rest |-> None]
         ELSE [line |-> fin_line, rest |-> fields[3]]

\* ------------------------------------------------- get_header_response

get_header_response(data) ==
    LET i == Find(data, COLON, 1) IN
    IF i = 0 THEN NoHeader
    ELSE [name |-> strip(SubSeq(data, 1, i - 1)),
          value |-> strip(SubSeq(data, i + 1, Len(data)))]

\* ------------------------------------------------------- parse_message

\* What the header loop hands on: exc is TRUE when an exception was raised.
Raised == [exc |-> TRUE, unparsed |-> None, headerz |-> << >>,
           ContentLength |-> 0, Referer |-> << >>, UserAgent |-> << >>]

RECURSIVE header_loop(_, _, _, _, _, _)
\* The while loop of parse_message: line and unparsed as the last parse_line
\* returned them, headerz and the three mirrors as collected so far.
header_loop(line, unparsed, headerz, cl, referer, agent) ==
    IF line = << >> THEN
        [exc |-> FALSE, unparsed |-> unparsed, headerz |-> headerz,
         ContentLength |-> cl, Referer |-> referer, UserAgent |-> agent]
    ELSE IF line = None THEN Raised
    ELSE IF Len(headerz) > 0 /\ starts_folded(line) THEN
        \* parse_line(None) raises AttributeError
        IF unparsed = None THEN Raised
        ELSE LET nxt == parse_line(unparsed) IN
             header_loop(nxt.line, nxt.rest,
                         [headerz EXCEPT ![Len(headerz)].value = @ \o line],
                         cl, referer, agent)
    ELSE
        LET header == get_header_response(line) IN
        IF header = NoHeader THEN Raised
        \* int() raises ValueError
        ELSE IF header.name = ContentLengthName /\ ~int_ok(header.value) THEN Raised
        ELSE IF unparsed = None THEN Raised
        ELSE LET nxt == parse_line(unparsed) IN
             header_loop(nxt.line, nxt.rest, Append(headerz, header),
                         IF header.name = ContentLengthName THEN int_of(header.value) ELSE cl,
                         IF header.name = RefererName THEN header.value ELSE referer,
                         IF header.name = UserAgentName THEN header.value ELSE agent)

\* The dict parse_message fills, for either message type.
new_message(message_type, req, hl, body) ==
    IF message_type = "REQUEST"
    THEN [type |-> message_type, method |-> req[1], uri |-> req[2], version |-> req[3],
          ContentLength |-> hl.ContentLength, Referer |-> hl.Referer,
          UserAgent |-> hl.UserAgent, body |-> body, headers |-> hl.headerz]
    ELSE [type |-> message_type, version |-> req[1], status_code |-> req[2],
          status_text |-> req[3],
          ContentLength |-> hl.ContentLength, Referer |-> hl.Referer,
          UserAgent |-> hl.UserAgent, body |-> body, headers |-> hl.headerz]

\* The bytes parse_message returns beside a message whose Content-Length is
\* positive: the variable unparsed after lines 126-132.
unparsed_after_body(unparsed, length) ==
    IF Len(unparsed) > length THEN SubSeq(unparsed, 1, length) ELSE unparsed

\* body_of without the slice of line 129.
body_of_unsliced(unparsed, length) == unparsed

\* body_of slicing from the end: unparsed[-length:].
body_of_tail(unparsed, length) ==
    SubSeq(unparsed, Len(unparsed) - length + 1, Len(unparsed))

\* message['body'] for a positive Content-Length (lines 129-132).
body_of(unparsed, length) ==
    IF Len(unparsed) > length THEN SubSeq(unparsed, 1, length) ELSE unparsed

\* body_missing without the test of line 126.
body_missing_unchecked(unparsed, length) ==
    length > 0 /\ unparsed = None

\* Whether lines 124-127 raise: len(None), or fewer bytes than Content-Length.
body_missing(unparsed, length) ==
    length > 0 /\ (unparsed = None \/ Len(unparsed) < length)

\* parse_failed handing back what the first parse_line left.
parse_failed_consumed(data) ==
    [message |-> NoMessage,
     unparsed |-> LET i == Find(data, LF, 1) IN
                  IF i = 0 THEN data ELSE SubSeq(data, i + 1, Len(data))]

\* What the except clause returns.
parse_failed(data) == [message |-> NoMessage, unparsed |-> data]

parse_message(data, message_type) ==
    LET first == parse_line(data) IN
    \* None.split raises AttributeError
    IF first.line = None THEN parse_failed(data)
    ELSE LET req == split_sp_2(first.line) IN
    IF Len(req) # 3 THEN parse_failed(data)
    \* parse_line(None) raises AttributeError
    ELSE IF first.rest = None THEN parse_failed(data)
    ELSE LET second == parse_line(first.rest)
             hl == header_loop(second.line, second.rest, << >>, 0,
                               DefaultReferer, DefaultUserAgent)
         IN
    IF hl.exc THEN parse_failed(data)
    ELSE IF hl.ContentLength > 0
    THEN IF body_missing(hl.unparsed, hl.ContentLength) THEN parse_failed(data)
         ELSE [message |-> new_message(message_type, req, hl,
                                       body_of(hl.unparsed, hl.ContentLength)),
               unparsed |-> unparsed_after_body(hl.unparsed, hl.ContentLength)]
    ELSE [message |-> new_message(message_type, req, hl, << >>),
          unparsed |-> hl.unparsed]

\* ------------------------------------------------------------ parse_uri

\* socket.getservbyname(scheme): the services database, for the schemes the
\* model's targets use. exc names the exception raised, "" when none is.
getservbyname(scheme) ==
    IF scheme = <<104, 116, 116, 112>> THEN [exc |-> "", port |-> 80]
    ELSE IF scheme = <<104, 116, 116, 112, 115>> THEN [exc |-> "", port |-> 443]
    ELSE [exc |-> "OSError", port |-> 0]

\* The characters urlsplit accepts in a scheme: letters, digits, "+", "-", ".".
SchemeChars == (65 .. 90) \cup (97 .. 122) \cup Digits \cup {43, 45, 46}

\* str.lower() on code points 0..127.
lower(s) == [i \in 1 .. Len(s) |-> IF s[i] \in 65 .. 90 THEN s[i] + 32 ELSE s[i]]

RECURSIVE split_colon(_, _)
\* str.split(':') of s from index i on.
split_colon(s, i) ==
    LET j == Find(s, COLON, i) IN
    IF j = 0 THEN << SubSeq(s, i, Len(s)) >>
    ELSE << SubSeq(s, i, j - 1) >> \o split_colon(s, j + 1)

\* urlsplit's scheme step: the text before the first ":" is the scheme when
\* it starts with a letter and holds scheme characters only.
split_scheme(uri) ==
    LET i == Find(uri, COLON, 1) IN
    IF /\ i > 1
       /\ uri[1] \in (65 .. 90) \cup (97 .. 122)
       /\ \A k \in 1 .. i - 1 : uri[k] \in SchemeChars
    THEN [scheme |-> lower(SubSeq(uri, 1, i - 1)), url |-> SubSeq(uri, i + 1, Len(uri))]
    ELSE [scheme |-> << >>, url |-> uri]

\* urlsplit's netloc step: what follows a leading "//", up to the next "/".
split_netloc(url) ==
    IF Len(url) >= 2 /\ url[1] = SLASH /\ url[2] = SLASH
    THEN LET e == Find(url, SLASH, 3) IN
         IF e = 0 THEN SubSeq(url, 3, Len(url)) ELSE SubSeq(url, 3, e - 1)
    ELSE << >>

\* The hostname property: the netloc before its first ":", lower-cased; None
\* when empty.
hostname_of(netloc) ==
    LET c == Find(netloc, COLON, 1)
        h == IF c = 0 THEN netloc ELSE SubSeq(netloc, 1, c - 1)
    IN  IF Len(h) = 0 THEN None ELSE lower(h)

\* The text of the port: the netloc after its first ":".
port_text(netloc) ==
    LET c == Find(netloc, COLON, 1) IN
    IF c = 0 THEN << >> ELSE SubSeq(netloc, c + 1, Len(netloc))

\* The port property: None without port text (none |-> TRUE), ValueError
\* (exc |-> TRUE) unless the text is digits that spell at most 65535.
port_of(port) ==
    IF Len(port) = 0 THEN [none |-> TRUE, exc |-> FALSE, value |-> 0]
    ELSE IF \E k \in 1 .. Len(port) : port[k] \notin Digits
    THEN [none |-> FALSE, exc |-> TRUE, value |-> 0]
    ELSE IF DigitsValue(port, 1, 0) > 65535
    THEN [none |-> FALSE, exc |-> TRUE, value |-> 0]
    ELSE [none |-> FALSE, exc |-> FALSE, value |-> DigitsValue(port, 1, 0)]

\* urllib.parse.urlparse(uri), for targets without "@", "[", "?", "#", ";" and
\* white space: the scheme, and the hostname and port properties.
urlparse(uri) ==
    [scheme |-> split_scheme(uri).scheme,
     hostname |-> hostname_of(split_netloc(split_scheme(uri).url)),
     port |-> port_of(port_text(split_netloc(split_scheme(uri).url)))]

\* The test of line 54 that guards the read of uri_parts[1].
has_port_part(uri, uri_parts) == Len(uri) > 1

\* What parse_uri hands back when it raises exception e.
uri_raise(e) == [exc |-> e, host |-> None, port |-> 0]

\* lines 46-50: urlparse recovered a host.
uri_parsed(uri_parts) ==
    IF uri_parts.port.exc THEN uri_raise("ValueError")
    ELSE IF ~uri_parts.port.none /\ uri_parts.port.value # 0
    THEN [exc |-> "", host |-> uri_parts.hostname, port |-> uri_parts.port.value]
    ELSE IF getservbyname(uri_parts.scheme).exc # ""
    THEN uri_raise(getservbyname(uri_parts.scheme).exc)
    ELSE [exc |-> "", host |-> uri_parts.hostname,
          port |-> getservbyname(uri_parts.scheme).port]

\* lines 51-57: urlparse recovered no host. uri_parts[1] raises IndexError,
\* int raises ValueError.
uri_split(uri, uri_parts) ==
    IF has_port_part(uri, uri_parts) THEN
        IF Len(uri_parts) < 2 THEN uri_raise("IndexError")
        ELSE IF ~int_ok(uri_parts[2]) THEN uri_raise("ValueError")
        ELSE [exc |-> "", host |-> uri_parts[1], port |-> int_of(uri_parts[2])]
    ELSE [exc |-> "", host |-> uri_parts[1], port |-> 80]

\* parse_uri(uri): exc names the exception raised, "" when it returns.
parse_uri(uri) ==
    IF urlparse(uri).hostname # None
    THEN uri_parsed(urlparse(uri))
    ELSE uri_split(uri, split_colon(uri, 1))

\* ----------------------------------------------------------------- bounds

\* The most header lines (continuation lines included) of an input message.
MaxHeaders == 2

\* The most bytes one recv returns short of all that is in flight.
MaxChunk == 3

\* The most client connections the accept loop takes.
MaxConns == 2

\* ----------------------------------------------------------------- inputs

\* Start lines with three or more fields, by the message type they are
\* parsed as: 'G / HTTP/1.0\r\n' and 'G / H\n'; 'H 404 Not Found\r\n'.
StartLines(message_type) ==
    IF message_type = "REQUEST"
    THEN { <<71, 32, 47, 32, 72, 84, 84, 80, 47, 49, 46, 48, 13, 10>>,
           <<71, 32, 47, 32, 72, 10>> }
    ELSE { <<72, 32, 52, 48, 52, 32, 78, 111, 116, 32, 70, 111, 117, 110, 100, 13, 10>> }

\* A start line with two fields: 'G /\r\n'.
BadStartLines ==
    { <<71, 32, 47, 13, 10>> }

\* Header lines: 'X: a\r\n', 'Content-Length: 2\r\n', 'Referer: r\r\n',
\* ' b\r\n' (a continuation line; a line without colon when it comes first),
\* 'Content-Length: x\r\n' (not a number).
HeaderLines ==
    { <<88, 58, 32, 97, 13, 10>>,
      <<67, 111, 110, 116, 101, 110, 116, 45, 76, 101, 110, 103, 116, 104, 58, 32, 50, 13, 10>>,
      <<82, 101, 102, 101, 114, 101, 114, 58, 32, 114, 13, 10>>,
      <<32, 98, 13, 10>>,
      <<67, 111, 110, 116, 101, 110, 116, 45, 76, 101, 110, 103, 116, 104, 58, 32, 120, 13, 10>> }

\* What follows the blank line: nothing, 'hi', 'hiZ'.
Tails ==
    { << >>, <<104, 105>>, <<104, 105, 90>> }

RECURSIVE Flatten(_, _)
\* The concatenation of the byte strings ss[i], ss[i+1], ...
Flatten(ss, i) == IF i > Len(ss) THEN << >> ELSE ss[i] \o Flatten(ss, i + 1)

\* The header blocks of at most MaxHeaders lines.
HeaderBlocks == UNION { [1 .. n -> HeaderLines] : n \in 0 .. MaxHeaders }

\* Header blocks beyond MaxHeaders lines: a header with two continuation
\* lines and a second header of its name ('X: a\r\n', ' b\r\n', '\tY:c\r\n',
\* 'X: a\r\n'); a first line that starts with a space and has a colon
\* (' Z: d\r\n').
LongBlocks ==
    { << <<88, 58, 32, 97, 13, 10>>, <<32, 98, 13, 10>>, <<9, 89, 58, 99, 13, 10>>,
         <<88, 58, 32, 97, 13, 10>> >>,
      << <<32, 90, 58, 32, 100, 13, 10>> >> }

\* A request line with a fourth token: 'G / H x\r\n'.
LongStartLines(message_type) ==
    IF message_type = "REQUEST" THEN { <<71, 32, 47, 32, 72, 32, 120, 13, 10>> } ELSE { }

\* The byte streams a peer may send to a read loop that parses message_type.
Wires(message_type) ==
    { s \o Flatten(b, 1) \o CRLF \o t :
        s \in StartLines(message_type), b \in HeaderBlocks, t \in Tails }
    \cup { s \o CRLF : s \in BadStartLines }
    \cup { s \o Flatten(b, 1) \o CRLF : s \in StartLines(message_type), b \in LongBlocks }
    \cup { s \o CRLF : s \in LongStartLines(message_type) }

MessageTypes == {"REQUEST", "RESPONSE"}

\* The sizes of the chunk a recv may return when n bytes are still to come.
ChunkSizes(n) == { k \in 1 .. n : k <= MaxChunk \/ k = n }

\* What the clients of the relay driver send.
ClientWires ==
    \* 'GET http://localhost:8000/ HTTP/1.1\r\nHost: localhost\r\n\r\n'
    { <<71, 69, 84, 32, 104, 116, 116, 112, 58, 47, 47, 108, 111, 99, 97, 108, 104, 111, 115,
       116, 58, 56, 48, 48, 48, 47, 32, 72, 84, 84, 80, 47, 49, 46, 49, 13, 10, 72, 111, 115,
       116, 58, 32, 108, 111, 99, 97, 108, 104, 111, 115, 116, 13, 10, 13, 10>>,
    \* 'POST http://h:81/ HTTP/1.0\r\nReferer: r\r\nUser-Agent: u\r\n
    \*  Content-Length: 2\r\n\r\nhiG /'
      <<80, 79, 83, 84, 32, 104, 116, 116, 112, 58, 47, 47, 104, 58, 56, 49, 47, 32, 72, 84,
       84, 80, 47, 49, 46, 48, 13, 10, 82, 101, 102, 101, 114, 101, 114, 58, 32, 114, 13, 10,
       85, 115, 101, 114, 45, 65, 103, 101, 110, 116, 58, 32, 117, 13, 10, 67, 111, 110, 116,
       101, 110, 116, 45, 76, 101, 110, 103, 116, 104, 58, 32, 50, 13, 10, 13, 10, 104, 105,
       71, 32, 47>>,
    \* 'CONNECT h:8 HTTP/1.1\r\n\r\n'
      <<67, 79, 78, 78, 69, 67, 84, 32, 104, 58, 56, 32, 72, 84, 84, 80, 47, 49, 46, 49, 13,
       10, 13, 10>>,
    \* 'GET example.com HTTP/1.0\r\n\r\n'
      <<71, 69, 84, 32, 101, 120, 97, 109, 112, 108, 101, 46, 99, 111, 109, 32, 72, 84, 84,
       80, 47, 49, 46, 48, 13, 10, 13, 10>>,
    \* 'GET x://h/ HTTP/1.0\r\n\r\n'
      <<71, 69, 84, 32, 120, 58, 47, 47, 104, 47, 32, 72, 84, 84, 80, 47, 49, 46, 48, 13,
       10, 13, 10>>,
    \* 'GET /\r\n\r\n'
      <<71, 69, 84, 32, 47, 13, 10, 13, 10>> }

\* What the origin servers answer.
OriginWires ==
    \* 'HTTP/1.0 200 OK\r\nContent-Length: 2\r\n\r\nhi'
    { <<72, 84, 84, 80, 47, 49, 46, 48, 32, 50, 48, 48, 32, 79, 75, 13, 10, 67, 111, 110, 116,
       101, 110, 116, 45, 76, 101, 110, 103, 116, 104, 58, 32, 50, 13, 10, 13, 10, 104, 105>>,
    \* 'HTTP/1.1 404 Not Found\r\nServer: s\r\n\r\n'
      <<72, 84, 84, 80, 47, 49, 46, 49, 32, 52, 48, 52, 32, 78, 111, 116, 32, 70, 111, 117,
       110, 100, 13, 10, 83, 101, 114, 118, 101, 114, 58, 32, 115, 13, 10, 13, 10>>,
    \* 'HTTP/1.0 200 OK\nContent-Length:2\n\nhiZ'
      <<72, 84, 84, 80, 47, 49, 46, 48, 32, 50, 48, 48, 32, 79, 75, 10, 67, 111, 110, 116,
       101, 110, 116, 45, 76, 101, 110, 103, 116, 104, 58, 50, 10, 10, 104, 105, 90>>,
    \* 'HTTP/1.0 200\r\n\r\n'
      <<72, 84, 84, 80, 47, 49, 46, 48, 32, 50, 48, 48, 13, 10, 13, 10>> }

\* addr[0] of a client of the listening socket on 127.0.0.1: '127.0.0.1'.
ClientAddr == <<49, 50, 55, 46, 48, 46, 48, 46, 49>>

\* A value of now.strftime('%d/%b/%Y:%H:%M:%S'): '04/Nov/2026:13:25:00'.
TimeStamp == <<48, 52, 47, 78, 111, 118, 47, 50, 48, 50, 54, 58, 49, 51, 58, 50, 53, 58, 48, 48>>

\* The targets parse_uri is applied to: an optional scheme ('http:', 'https:',
\* 'x:'), an optional '//', a host ('', 'h', 'ab', 'example.com'), an
\* optional port (':', ':8', ':80', ':x', ':0') and an optional path ('/').
Targets ==
    { sc \o sl \o h \o p \o pa :
        sc \in { << >>, <<104, 116, 116, 112, 58>>, <<104, 116, 116, 112, 115, 58>>,
                 <<120, 58>> },
        sl \in { << >>, <<47, 47>> },
        h \in { << >>, <<104>>, <<97, 98>>,
              <<101, 120, 97, 109, 112, 108, 101, 46, 99, 111, 109>> },
        p \in { << >>, <<58>>, <<58, 56>>, <<58, 56, 48>>, <<58, 120>>, <<58, 48>> },
        pa \in { << >>, <<47>> } }

\* -------------------------------------------------------------- variables

VARIABLES
    pc,          \* where the process is: "accept", "recv_client", "connect",
                 \* "recv_origin", "relay", "log", "crashed"; "off" when not run
    accepted,    \* client connections accepted so far
    connected,   \* outbound connections opened so far
    written,     \* exchanges whose response was written to the client
    logged,      \* access-log lines printed
    c_wire,      \* the bytes the current client sends in all
    c_pos,       \* how many of them main has received
    buffer,      \* main's buffer
    message,     \* main's message
    unparsed,    \* main's unparsed
    dest,        \* destHost, destPort as parse_uri returned them
    req,         \* main's req
    o_wire,      \* the bytes the origin sends in all
    o_pos,       \* how many of them get_response has received
    g_buffer,    \* get_response's buffer
    m_resp,      \* the message get_response returned
    response,    \* the bytes get_response returned
    sent_up,     \* the bytes sent on the outbound socket
    to_client,   \* the bytes written to the current client socket
    logline,     \* the line printed for the current client connection
    conn,        \* the current client socket: "none", "open" (main never
                 \* calls conn.close())
    up,          \* the outbound socket of the current client connection:
                 \* "none", "created", "open", "closed"
    outcome,     \* how the current connection's exchange ended: "" while it
                 \* runs, "abandoned" (the client closed), "relayed", or the
                 \* name of the exception that ended the process
    p_type,      \* the read loop on its own: parse_message's message_type
    p_wire,      \* the bytes the peer sends in all
    p_pos,       \* how many of them the read loop has received
    p_buffer,    \* the read loop's buffer
    p_message,   \* the message of the last parse_message call
    p_unparsed,  \* the buffer the last parse_message call returned
    p_state,     \* "reading", "parsed" (the loop got a message), "eof"; "off"
    u_uri,       \* parse_uri on its own: its argument
    u_result,    \* what it returned or raised
    u_state      \* "call", "returned", "raised"; "off"

counters == << accepted, connected, written, logged >>
clientVars == << c_wire, c_pos, buffer, message, unparsed, dest, req >>
originVars == << o_wire, o_pos, g_buffer, m_resp, response, sent_up >>
outVars == << to_client, logline >>
sockVars == << conn, up, outcome >>
driverVars == << pc, counters, clientVars, originVars, outVars, sockVars >>
parseVars == << p_type, p_wire, p_pos, p_buffer, p_message, p_unparsed, p_state >>
uriVars == << u_uri, u_result, u_state >>

vars == << driverVars, parseVars, uriVars >>

\* What parse_uri hands back before it has been called.
NoDest == [exc |-> "", host |-> None, port |-> 0]

DriverOff ==
    /\ pc = "off"
    /\ accepted = 0 /\ connected = 0 /\ written = 0 /\ logged = 0
    /\ c_wire = << >> /\ c_pos = 0 /\ buffer = << >>
    /\ message = NoMessage /\ unparsed = << >>
    /\ dest = NoDest /\ req = << >>
    /\ o_wire = << >> /\ o_pos = 0 /\ g_buffer = << >>
    /\ m_resp = NoMessage /\ response = << >> /\ sent_up = << >>
    /\ to_client = << >> /\ logline = << >>
    /\ conn = "none" /\ up = "none" /\ outcome = ""

ParseOff ==
    /\ p_type = "REQUEST" /\ p_wire = << >> /\ p_pos = 0 /\ p_buffer = << >>
    /\ p_message = NoMessage /\ p_unparsed = << >> /\ p_state = "off"

UriOff ==
    /\ u_uri = << >> /\ u_result = NoDest /\ u_state = "off"

\* --------------------------------------------------- main, get_response

\* str(n)
str(n) == IF n < 0 THEN << MINUS >> \o Decimal(0 - n) ELSE Decimal(n)

\* The line main prints (lines 193-201).
log_line(msg, resp) ==
    LET reqHost == ClientAddr \o << SP >>
        timeStamp == TimeStamp \o << SP >>
        message_header == << 34 >> \o msg.method \o << SP >> \o msg.uri \o << SP >>
                          \o msg.version \o << 34, SP >>
        respCode == resp.status_code \o << SP >>
        respLength == str(resp.ContentLength) \o << SP >>
    IN  reqHost \o timeStamp \o message_header \o respCode \o respLength
        \o msg.Referer \o msg.UserAgent

\* The listening socket is bound and listening; main is about to accept.
Init ==
    /\ pc = "accept"
    /\ accepted = 0 /\ connected = 0 /\ written = 0 /\ logged = 0
    /\ c_wire = << >> /\ c_pos = 0 /\ buffer = << >>
    /\ message = NoMessage /\ unparsed = << >>
    /\ dest = NoDest /\ req = << >>
    /\ o_wire = << >> /\ o_pos = 0 /\ g_buffer = << >>
    /\ m_resp = NoMessage /\ response = << >> /\ sent_up = << >>
    /\ to_client = << >> /\ logline = << >>
    /\ conn = "none" /\ up = "none" /\ outcome = ""
    /\ ParseOff /\ UriOff

\* conn, addr = s.accept(); buffer = b'' (lines 179-181). The client's bytes
\* are chosen here; nothing has been written to or printed for this client.
Accept ==
    /\ pc = "accept"
    /\ accepted < MaxConns
    /\ \E w \in ClientWires : c_wire' = w
    /\ c_pos' = 0
    /\ buffer' = << >>
    /\ accepted' = accepted + 1
    /\ conn' = "open"
    /\ up' = "none"
    /\ outcome' = ""
    /\ to_client' = << >>
    /\ logline' = << >>
    /\ pc' = "recv_client"
    /\ UNCHANGED << connected, written, logged, message, unparsed, dest, req,
                    originVars, parseVars, uriVars >>

\* conn.recv returns a chunk (lines 183-191): the buffer grows by it and is
\* parsed as a REQUEST. With a message, parse_uri resolves its target (an
\* exception it raises is caught nowhere and ends the process),
\* build_message serializes it and get_response creates the outbound socket.
ClientRecv ==
    /\ pc = "recv_client"
    /\ \E k \in ChunkSizes(Len(c_wire) - c_pos) :
          LET data == buffer \o SubSeq(c_wire, c_pos + 1, c_pos + k)
              r == parse_message(data, "REQUEST")
              d == parse_uri(r.message.uri)
          IN  /\ c_pos' = c_pos + k
              /\ buffer' = data
              /\ message' = r.message
              /\ unparsed' = r.unparsed
              /\ IF r.message = NoMessage
                 THEN /\ pc' = "recv_client"
                      /\ UNCHANGED << dest, req, up, outcome >>
                 ELSE IF d.exc # ""
                 THEN /\ pc' = "crashed"
                      /\ outcome' = d.exc
                      /\ dest' = d
                      /\ UNCHANGED << req, up >>
                 ELSE /\ pc' = "connect"
                      /\ dest' = d
                      /\ req' = build_message(r.message)
                      /\ up' = "created"
                      /\ UNCHANGED outcome
    /\ UNCHANGED << counters, c_wire, originVars, outVars, conn, parseVars, uriVars >>

\* ClientClose printing a log line for the abandoned connection.
ClientCloseLogged ==
    /\ pc = "recv_client"
    /\ pc' = "accept"
    /\ outcome' = "abandoned"
    /\ logged' = logged + 1
    /\ UNCHANGED << accepted, connected, written, clientVars, originVars, outVars,
                    conn, up, parseVars, uriVars >>

\* conn.recv returns b'' (lines 184-185): the client has closed before a
\* request was complete; break, and back to accept. conn is not closed.
ClientClose ==
    /\ pc = "recv_client"
    /\ pc' = "accept"
    /\ outcome' = "abandoned"
    /\ UNCHANGED << counters, clientVars, originVars, outVars, conn, up,
                    parseVars, uriVars >>

\* s.connect succeeds and s.sendall(req) sends the request (lines 143-147).
\* The origin's answer is chosen here.
ConnectOk ==
    /\ pc = "connect"
    /\ connected' = connected + 1
    /\ up' = "open"
    /\ sent_up' = req
    /\ \E w \in OriginWires : o_wire' = w
    /\ o_pos' = 0
    /\ g_buffer' = << >>
    /\ pc' = "recv_origin"
    /\ UNCHANGED << accepted, written, logged, clientVars, m_resp, response,
                    outVars, conn, outcome, parseVars, uriVars >>

\* s.connect raises (line 143): the with block closes the socket and the
\* exception, caught nowhere, ends the process.
ConnectFail ==
    /\ pc = "connect"
    /\ up' = "closed"
    /\ pc' = "crashed"
    /\ outcome' = "ConnectFailure"
    /\ UNCHANGED << counters, clientVars, originVars, outVars, conn,
                    parseVars, uriVars >>

\* s.recv returns a chunk (lines 149-156): the buffer grows by it and is
\* parsed as a RESPONSE. With a message, get_response returns its
\* serialization and the message; the with block closes the socket.
OriginRecv ==
    /\ pc = "recv_origin"
    /\ \E k \in ChunkSizes(Len(o_wire) - o_pos) :
          LET data == g_buffer \o SubSeq(o_wire, o_pos + 1, o_pos + k)
              r == parse_message(data, "RESPONSE")
          IN  /\ o_pos' = o_pos + k
              /\ g_buffer' = data
              /\ IF r.message = NoMessage
                 THEN /\ pc' = "recv_origin"
                      /\ UNCHANGED << m_resp, response, up >>
                 ELSE /\ pc' = "relay"
                      /\ m_resp' = r.message
                      /\ response' = build_message(r.message)
                      /\ up' = "closed"
    /\ UNCHANGED << counters, clientVars, o_wire, sent_up, outVars, conn, outcome,
                    parseVars, uriVars >>

\* OriginClose writing what was buffered to the client and going on.
OriginCloseFlush ==
    /\ pc = "recv_origin"
    /\ up' = "closed"
    /\ to_client' = to_client \o g_buffer
    /\ pc' = "accept"
    /\ outcome' = "abandoned"
    /\ UNCHANGED << counters, clientVars, originVars, logline, conn,
                    parseVars, uriVars >>

\* s.recv returns b'' (lines 150-151): break, the with block closes the
\* socket and get_response returns None; unpacking None into response,
\* m_resp (line 191) raises TypeError, caught nowhere.
OriginClose ==
    /\ pc = "recv_origin"
    /\ up' = "closed"
    /\ pc' = "crashed"
    /\ outcome' = "TypeError"
    /\ UNCHANGED << counters, clientVars, originVars, outVars, conn,
                    parseVars, uriVars >>

\* conn.sendall(response) (line 192).
Relay ==
    /\ pc = "relay"
    /\ to_client' = to_client \o response
    /\ written' = written + 1
    /\ pc' = "log"
    /\ UNCHANGED << accepted, connected, logged, clientVars, originVars, logline,
                    sockVars, parseVars, uriVars >>

\* print(...); break (lines 193-202), and back to accept.
Log ==
    /\ pc = "log"
    /\ logline' = log_line(message, m_resp)
    /\ logged' = logged + 1
    /\ pc' = "accept"
    /\ outcome' = "relayed"
    /\ UNCHANGED << accepted, connected, written, clientVars, originVars, to_client,
                    conn, up, parseVars, uriVars >>

Next ==
    \/ Accept
    \/ ClientRecv
    \/ ClientClose
    \/ ConnectOk
    \/ ConnectFail
    \/ OriginRecv
    \/ OriginClose
    \/ Relay
    \/ Log

Spec == Init /\ [][Next]_vars

\* ------------------------------------------- the read loop, on its own

\* buffer = b'' before the loop (lines 147, 181); the message type and the
\* peer's bytes are the inputs.
InitParse ==
    /\ p_type \in MessageTypes
    /\ p_wire \in Wires(p_type)
    /\ p_pos = 0
    /\ p_buffer = << >>
    /\ p_message = NoMessage
    /\ p_unparsed = << >>
    /\ p_state = "reading"
    /\ DriverOff /\ UriOff

\* One turn of the loop (lines 149-154, 183-188): recv returns a chunk, the
\* buffer grows by it and parse_message runs on the whole buffer.
ParseRecv ==
    /\ p_state = "reading"
    /\ \E k \in ChunkSizes(Len(p_wire) - p_pos) :
          LET data == p_buffer \o SubSeq(p_wire, p_pos + 1, p_pos + k)
              r == parse_message(data, p_type)
          IN  /\ p_pos' = p_pos + k
              /\ p_buffer' = data
              /\ p_message' = r.message
              /\ p_unparsed' = r.unparsed
              /\ p_state' = IF r.message # NoMessage THEN "parsed" ELSE "reading"
    /\ UNCHANGED << p_type, p_wire, driverVars, uriVars >>

\* recv returns b'' (lines 150-151, 184-185): the peer has closed, the loop
\* breaks.
ParseEof ==
    /\ p_state = "reading"
    /\ p_pos = Len(p_wire)
    /\ p_state' = "eof"
    /\ UNCHANGED << p_type, p_wire, p_pos, p_buffer, p_message, p_unparsed,
                    driverVars, uriVars >>

NextParse == ParseRecv \/ ParseEof

SpecParse == InitParse /\ [][NextParse]_vars

\* ------------------------------------------------ parse_uri, on its own

InitUri ==
    /\ u_uri \in Targets
    /\ u_result = NoDest
    /\ u_state = "call"
    /\ DriverOff /\ ParseOff

\* destHost, destPort = parse_uri(uri), where it returns.
UriReturn ==
    /\ u_state = "call"
    /\ parse_uri(u_uri).exc = ""
    /\ u_result' = parse_uri(u_uri)
    /\ u_state' = "returned"
    /\ UNCHANGED << u_uri, driverVars, parseVars >>

\* parse_uri(uri), where it raises.
UriRaise ==
    /\ u_state = "call"
    /\ parse_uri(u_uri).exc # ""
    /\ u_result' = parse_uri(u_uri)
    /\ u_state' = "raised"
    /\ UNCHANGED << u_uri, driverVars, parseVars >>

NextUri == UriReturn \/ UriRaise

SpecUri == InitUri /\ [][NextUri]_vars

\* ------------------------------------------------------------------ claims

RECURSIVE BlankLineEnd(_, _)
\* The index of the "\n" that ends the first line, among those starting at
\* index i or later, that holds nothing but "\r"; 0 when there is none.
BlankLineEnd(data, i) ==
    LET j == Find(data, LF, i) IN
    IF j = 0 THEN 0
    ELSE IF \A k \in i .. j - 1 : data[k] = CR THEN j
    ELSE BlankLineEnd(data, j + 1)

\* The index of the "\n" of the blank line that ends the headers of data.
HeadersEnd(data) == BlankLineEnd(data, Find(data, LF, 1) + 1)

\* The body region of data: the bytes after the blank line.
BodyRegion(data) == SubSeq(data, HeadersEnd(data) + 1, Len(data))

\* w is the serialization of a message of type t: build_message gives w
\* back from the message parse_message reads from it.
Serialized(w, t) ==
    /\ parse_message(w, t).message # NoMessage
    /\ build_message(parse_message(w, t).message) = w

\* C1. Incremental equivalence: when the peer's bytes are the serialization
\* of a message, the message the read loop gets at its first non-absent
\* result, however the bytes were cut into chunks, is the message one
\* parse_message call on all the bytes returns.
C1_IncrementalEquivalence ==
    (p_state = "parsed" /\ Serialized(p_wire, p_type))
        => p_message = parse_message(p_wire, p_type).message

\* C1's case: a serialized message with headers and a body, read in chunks
\* to its last byte.
C1_Witness ==
    /\ p_state = "parsed"
    /\ Serialized(p_wire, p_type)
    /\ Len(p_message.headers) = 2
    /\ Len(p_message.body) > 0
    /\ p_pos = Len(p_wire)

\* C2. A truncated prefix is incomplete: for every message M the parser
\* returns and every strict prefix P of build_message(M), the empty one
\* included, parse_message(P) returns no message and returns P itself.
C2_TruncatedPrefixIncomplete ==
    p_state = "parsed" =>
        \A k \in 0 .. Len(build_message(p_message)) - 1 :
            parse_message(SubSeq(build_message(p_message), 1, k), p_type)
                = [message |-> NoMessage,
                   unparsed |-> SubSeq(build_message(p_message), 1, k)]

\* C2's case: a message with a body, so that a prefix ends exactly at the
\* blank line while Content-Length is positive.
C2_Witness ==
    /\ p_state = "parsed"
    /\ p_message.ContentLength > 0
    /\ Len(p_message.headers) = 2
    /\ parse_message(build_message(p_message), p_type).message # NoMessage

\* C3. Failure leaves the buffer untouched: whenever parse_message returns
\* no message, the buffer it returns is its input buffer.
C3_FailureKeepsBuffer ==
    p_message = NoMessage => p_unparsed = p_buffer

\* C3's case: the start line and the headers were read and the failing step
\* is the body, one byte short of Content-Length.
C3_Witness ==
    /\ p_state = "reading"
    /\ p_message = NoMessage
    /\ p_pos > 0
    /\ HeadersEnd(p_buffer) > 0
    /\ HeadersEnd(p_buffer) < Len(p_buffer)
    /\ parse_message(p_buffer \o << 0 >>, p_type).message # NoMessage

\* C4. Leftover after the body: when parse_message succeeds with a positive
\* Content-Length L on a body region of N >= L bytes, the buffer it returns
\* is the last N - L bytes of the body region.
C4_LeftoverAfterBody ==
    (p_state = "parsed" /\ p_message.ContentLength > 0) =>
        p_unparsed = SubSeq(BodyRegion(p_buffer), p_message.ContentLength + 1,
                            Len(BodyRegion(p_buffer)))

\* C5. No partially-valid message: a returned message has its start-line
\* fields and header list; with a positive Content-Length its body is the
\* first Content-Length bytes after the blank line; otherwise its body is
\* empty and the same message is returned for the buffer cut at the blank
\* line.
C5_NoPartialMessage ==
    p_state = "parsed" =>
        /\ DOMAIN p_message =
              {"type", "ContentLength", "Referer", "UserAgent", "body", "headers"}
              \cup (IF p_type = "REQUEST" THEN {"method", "uri", "version"}
                    ELSE {"version", "status_code", "status_text"})
        /\ p_message.type = p_type
        /\ HeadersEnd(p_buffer) > 0
        /\ IF p_message.ContentLength > 0
           THEN /\ Len(p_message.body) = p_message.ContentLength
                /\ Len(BodyRegion(p_buffer)) >= p_message.ContentLength
                /\ p_message.body
                      = SubSeq(BodyRegion(p_buffer), 1, p_message.ContentLength)
           ELSE /\ p_message.body = << >>
                /\ parse_message(SubSeq(p_buffer, 1, HeadersEnd(p_buffer)), p_type).message
                      = p_message

\* C5's case: more bytes than Content-Length follow the blank line.
C5_Witness ==
    /\ p_state = "parsed"
    /\ p_message.ContentLength > 0
    /\ Len(BodyRegion(p_buffer)) > p_message.ContentLength

\* A message as C6 takes it: header names and values trimmed, the body as
\* long as Content-Length, or empty with a Content-Length of 0.
WellFormed(m) ==
    /\ \A i \in 1 .. Len(m.headers) :
          /\ strip(m.headers[i].name) = m.headers[i].name
          /\ strip(m.headers[i].value) = m.headers[i].value
    /\ \/ m.ContentLength > 0 /\ Len(m.body) = m.ContentLength
       \/ m.ContentLength = 0 /\ m.body = << >>

\* C6. Round trip: parse_message(build_message(M)) returns M for every
\* well-formed message M, except that a REQUEST's version comes back as
\* 'HTTP/1.0'.
C6_RoundTrip ==
    (p_state = "parsed" /\ WellFormed(p_message)) =>
        parse_message(build_message(p_message), p_type).message
            = IF p_type = "REQUEST" THEN [p_message EXCEPT !.version = Http10]
              ELSE p_message

\* C7. Schemeless targets: when urlparse recovers no host, parse_uri returns
\* the text before the first ":" as host, with the integer after it as port,
\* and returns the whole target with port 80 when there is no ":" at all.
C7_SchemelessTarget ==
    (u_state # "call" /\ urlparse(u_uri).hostname = None) =>
        IF Find(u_uri, COLON, 1) = 0
        THEN /\ u_state = "returned"
             /\ u_result.host = u_uri
             /\ u_result.port = 80
        ELSE int_ok(split_colon(u_uri, 1)[2]) =>
                /\ u_state = "returned"
                /\ u_result.host = split_colon(u_uri, 1)[1]
                /\ u_result.port = int_of(split_colon(u_uri, 1)[2])

\* C8. All-or-nothing relay: what has been written to the client socket is
\* nothing, or the serialization of the one RESPONSE parsed in full from
\* the origin's bytes, written once and after that parse.
C8_AllOrNothingRelay ==
    to_client # << >> =>
        /\ pc \in {"log", "accept"}
        /\ m_resp # NoMessage
        /\ m_resp = parse_message(g_buffer, "RESPONSE").message
        /\ to_client = build_message(m_resp)

\* C8's case: a response with a body has been relayed.
C8_Witness ==
    /\ pc = "log"
    /\ to_client # << >>
    /\ Len(m_resp.body) > 0

\* C9. One log line per completed exchange: as many lines have been printed
\* as responses written, but for the response just written whose line is
\* about to be printed; a connection's line is printed after its response
\* was written; a connection the client closed before a complete request
\* has no line, no outbound connection and nothing written.
C9_OneLogLinePerExchange ==
    /\ logged = (IF pc = "log" THEN written - 1 ELSE written)
    /\ logline # << >> => (to_client # << >> /\ outcome = "relayed")
    /\ (pc = "recv_client" \/ outcome = "abandoned") =>
          (logline = << >> /\ to_client = << >> /\ up = "none")
    /\ connected <= accepted

\* C9's case: one exchange was relayed and logged, and the next client
\* closed before its request was complete.
C9_Witness ==
    /\ outcome = "abandoned"
    /\ c_pos > 0
    /\ logged = 1
    /\ written = 1
    /\ accepted = 2

\* C10. The origin closing early is a silent abandon: nothing is written to
\* the client, no line is printed and the driver goes on to accept the next
\* client; the process does not crash.
C10_OriginCloseAbandons ==
    [][(pc = "recv_origin" /\ o_pos' = o_pos) =>
          /\ pc' = "accept"
          /\ to_client' = << >>
          /\ logline' = << >>
          /\ logged' = logged]_vars

\* C11. Connect and resolve failures abort only one exchange: when parse_uri
\* fails on the request target or the outbound connect fails, nothing is
\* written to the client, no line is printed, no further connection is
\* tried and the driver goes on to accept the next client.
C11_FailureAbortsOneExchange ==
    [][((pc = "connect" /\ up' = "closed")
        \/ (pc = "recv_client" /\ dest'.exc # "")) =>
          /\ pc' = "accept"
          /\ to_client' = << >>
          /\ logline' = << >>
          /\ logged' = logged
          /\ connected' = connected]_vars

\* C12. Sockets are released on every exit path: when an exchange has ended,
\* relayed, abandoned by the client or by a connect failure, the client
\* socket is closed and the outbound socket, if one was created, is closed,
\* before the driver accepts anything further.
C12_SocketsReleased ==
    outcome \in {"relayed", "abandoned", "ConnectFailure"} =>
        /\ conn = "closed"
        /\ up \in {"none", "closed"}

\* The value of the last entry of headers named name, absent when there is
\* none.
HeaderValue(headers, name, absent) ==
    LET I == { i \in 1 .. Len(headers) : headers[i].name = name } IN
    IF I = {} THEN absent
    ELSE headers[CHOOSE i \in I : \A j \in I : j <= i].value

\* C13. Log line field layout: the line printed for a completed exchange is
\* the seven fields client_ip, timestamp, "method target version" in quotes
\* with the request's own version, the response's status code and content
\* length, the request's referer and user agent, with one space between
\* consecutive fields; referer and user agent are "-" without the header.
C13_LogLineLayout ==
    logline # << >> =>
        logline = ClientAddr \o << SP >> \o TimeStamp \o << SP >>
                  \o << 34 >> \o message.method \o << SP >> \o message.uri
                  \o << SP >> \o message.version \o << 34 >> \o << SP >>
                  \o m_resp.status_code \o << SP >>
                  \o str(m_resp.ContentLength) \o << SP >>
                  \o HeaderValue(message.headers, RefererName, << MINUS >>) \o << SP >>
                  \o HeaderValue(message.headers, UserAgentName, << MINUS >>)

\* The first line of data without its terminator, "\r" included.
FirstLine(data) == rstrip(SubSeq(data, 1, Find(data, LF, 1) - 1), {CR})

\* The first two fields of a start line with the space after each.
MethodAndTarget(line) == SubSeq(line, 1, Find(line, SP, Find(line, SP, 1) + 1))

\* C14. The forwarded request's version is forced and the response's status
\* line is verbatim: the bytes sent upstream are the method and target of
\* the client's start line, 'HTTP/1.0', the client's headers in their order
\* and the body as received; the bytes written to the client begin with
\* the origin's status line, which is the version, status code and status
\* text as parsed.
C14_ForcedVersionVerbatimStatus ==
    /\ pc \in {"relay", "log"} =>
          sent_up = MethodAndTarget(FirstLine(buffer)) \o Http10 \o CRLF
                    \o build_headers(message.headers, 1) \o CRLF
                    \o SubSeq(BodyRegion(buffer), 1, message.ContentLength)
    /\ pc = "log" =>
          /\ SubSeq(to_client, 1, Len(FirstLine(o_wire)) + 2)
                = FirstLine(o_wire) \o CRLF
          /\ FirstLine(o_wire) = m_resp.version \o << SP >> \o m_resp.status_code
                                 \o << SP >> \o m_resp.status_text

\* C14's case: a request that declared HTTP/1.1, with a header, answered
\* with a status line of another version and a status text of two words.
C14_Witness ==
    /\ pc = "log"
    /\ message.version # Http10
    /\ Len(message.headers) > 0
    /\ m_resp.version # Http10
    /\ Find(m_resp.status_text, SP, 1) > 0

\* The number of fields of line that white space separates.
FieldCount(line) ==
    Cardinality({ i \in 1 .. Len(line) :
                    /\ line[i] \notin {SP, HT}
                    /\ (i = 1 \/ line[i - 1] \in {SP, HT}) })

\* The start-line fields of message m, in the order of the line.
StartFields(m) ==
    IF m.type = "REQUEST" THEN << m.method, m.uri, m.version >>
    ELSE << m.version, m.status_code, m.status_text >>

\* C15 as claimed. Start-line field count: for every buffer whose first line
\* has fewer or more than three fields separated by white space,
\* parse_message returns no message and the buffer it was given.
C15_ExactlyThreeFields ==
    (p_pos > 0 /\ Find(p_buffer, LF, 1) > 0 /\ FieldCount(FirstLine(p_buffer)) # 3) =>
        (p_message = NoMessage /\ p_unparsed = p_buffer)

\* C15 as amended. parse_message returns no message and the buffer it was
\* given for every buffer whose first line has fewer than two spaces; a
\* message it returns has as its fields the text before the first space,
\* the text between the first and the second space, and all the text after
\* the second space, further spaces included.
C15_ThreeFieldsAtTwoSpaces ==
    LET line == FirstLine(p_buffer)
        i == Find(line, SP, 1)
        j == IF i = 0 THEN 0 ELSE Find(line, SP, i + 1)
    IN  /\ (p_pos > 0 /\ Find(p_buffer, LF, 1) > 0 /\ j = 0) =>
              (p_message = NoMessage /\ p_unparsed = p_buffer)
        /\ p_state = "parsed" =>
              /\ j > 0
              /\ StartFields(p_message)
                    = << SubSeq(line, 1, i - 1), SubSeq(line, i + 1, j - 1),
                         SubSeq(line, j + 1, Len(line)) >>

\* C15's case: a message was read from a start line of four tokens.
C15_Witness ==
    /\ p_state = "parsed"
    /\ FieldCount(FirstLine(p_buffer)) = 4

\* The line of data after its first line, without its terminator; None
\* when data does not hold it in full.
SecondLine(data) ==
    LET i == Find(data, LF, 1)
        j == IF i = 0 THEN 0 ELSE Find(data, LF, i + 1)
    IN  IF j = 0 THEN None ELSE rstrip(SubSeq(data, i + 1, j - 1), {CR})

\* C16. An orphan continuation line is fatal: for every buffer whose first
\* line after the start line begins with a space or a tab, with or without
\* a colon in it, parse_message returns no message and the buffer it was
\* given.
C16_OrphanContinuationFatal ==
    (/\ p_pos > 0
     /\ SecondLine(p_buffer) # None
     /\ Len(SecondLine(p_buffer)) > 0
     /\ SecondLine(p_buffer)[1] \in {SP, HT}) =>
        (p_message = NoMessage /\ p_unparsed = p_buffer)

RECURSIVE LinesFrom(_, _)
\* The lines of data from index i up to the first empty line, each without
\* its terminator.
LinesFrom(data, i) ==
    LET j == Find(data, LF, i)
        line == rstrip(SubSeq(data, i, j - 1), {CR})
    IN  IF j = 0 \/ line = << >> THEN << >>
        ELSE << line >> \o LinesFrom(data, j + 1)

\* The header lines of data: those between the start line and the blank line.
HeaderLinesOf(data) == LinesFrom(data, Find(data, LF, 1) + 1)

\* Whether line is a continuation line.
IsContinuation(line) == line[1] \in {SP, HT}

\* The indices of the lines of L that are not continuation lines.
HeaderStarts(L) == { i \in 1 .. Len(L) : ~IsContinuation(L[i]) }

\* The k-th of them, and the index of the last line before the one after it.
KthStart(L, k) ==
    CHOOSE s \in HeaderStarts(L) : Cardinality({ t \in HeaderStarts(L) : t <= s }) = k

LastOfKth(L, k) ==
    IF k = Cardinality(HeaderStarts(L)) THEN Len(L) ELSE KthStart(L, k + 1) - 1

RECURSIVE Joined(_, _, _)
\* L[i] .. L[j] one after the other with nothing in between.
Joined(L, i, j) == IF i > j THEN << >> ELSE L[i] \o Joined(L, i + 1, j)

\* C17. Header folding: a returned message has one header per header line
\* that is not a continuation line, in the order of the lines; its name is
\* the trimmed text before the first colon and its value the trimmed text
\* after it followed by each of its continuation lines as received, leading
\* white space included and nothing put in between; headers of one name
\* stay separate entries.
C17_HeaderFolding ==
    LET L == HeaderLinesOf(p_buffer) IN
    (p_state = "parsed" /\ (L = << >> \/ ~IsContinuation(L[1]))) =>
        /\ Len(p_message.headers) = Cardinality(HeaderStarts(L))
        /\ \A k \in 1 .. Len(p_message.headers) :
              LET s == KthStart(L, k)
                  c == Find(L[s], COLON, 1)
              IN  /\ p_message.headers[k].name = strip(SubSeq(L[s], 1, c - 1))
                  /\ p_message.headers[k].value
                        = strip(SubSeq(L[s], c + 1, Len(L[s])))
                          \o Joined(L, s + 1, LastOfKth(L, k))

\* C17's case: a header with two continuation lines, one of them starting
\* with a tab, and a later header of the same name.
C17_Witness ==
    LET L == HeaderLinesOf(p_buffer) IN
    /\ p_state = "parsed"
    /\ Len(L) = 4
    /\ Len(p_message.headers) = 2
    /\ p_message.headers[1].name = p_message.headers[2].name
    /\ L[3][1] = HT

\* C18. Derived-field defaults: a message returned for a buffer without a
\* Content-Length, Referer or User-Agent header has Content-Length 0,
\* Referer "-", User-Agent "-" and an empty body.
C18_DerivedFieldDefaults ==
    (/\ p_state = "parsed"
     /\ \A i \in 1 .. Len(p_message.headers) :
           p_message.headers[i].name
               \notin {ContentLengthName, RefererName, UserAgentName}) =>
        /\ p_message.ContentLength = 0
        /\ p_message.Referer = << MINUS >>
        /\ p_message.UserAgent = << MINUS >>
        /\ p_message.body = << >>

\* C19. The mirrors agree with the header list: in a returned message the
\* Referer and User-Agent fields are the value of the last header of that
\* name, and the Content-Length field is the integer value of the last
\* Content-Length header, also when continuation lines extended the header.
C19_MirrorsAgreeWithHeaders ==
    p_state = "parsed" =>
        LET h == p_message.headers
            cl == HeaderValue(h, ContentLengthName, None)
            referer == HeaderValue(h, RefererName, None)
            agent == HeaderValue(h, UserAgentName, None)
        IN  /\ referer # None => p_message.Referer = referer
            /\ agent # None => p_message.UserAgent = agent
            /\ cl # None => (int_ok(cl) /\ p_message.ContentLength = int_of(cl))

\* Bytes that may follow a message in the same buffer: '\n', ' ', 'Z',
\* '\r\n\r\n', ' b\r\n', 'Content-Length: 2\r\n', 'G / H\n\r\n'.
Appended ==
    { << LF >>, << SP >>, << 90 >>, CRLF \o CRLF, <<32, 98, 13, 10>>,
      ContentLengthName \o <<58, 32, 50, 13, 10>>,
      <<71, 32, 47, 32, 72, 10, 13, 10>> }

\* C20. Parse success is stable under appended bytes: when parse_message
\* returns a message for a buffer, it returns the same message for that
\* buffer followed by any further bytes, those the peer sends next included.
C20_StableUnderAppendedBytes ==
    p_state = "parsed" =>
        /\ \A X \in Appended :
              parse_message(p_buffer \o X, p_type).message = p_message
        /\ \A n \in p_pos .. Len(p_wire) :
              parse_message(SubSeq(p_wire, 1, n), p_type).message = p_message

\* C20's case: a message with a body was read while bytes of the peer were
\* still to come.
C20_Witness ==
    /\ p_state = "parsed"
    /\ p_message.ContentLength > 0
    /\ p_pos < Len(p_wire)

=============================================================================
